---- MODULE Spec2Model ----
(***************************************************************************)
(* CIDRProcessor (deepseek_python_20251224_1cb7ea.py): load a list of      *)
(* prefix strings, drop duplicate strings, resolve overlaps between the    *)
(* parsed networks with a scan in base-address order.                      *)
(*                                                                         *)
(* A prefix string is a record [k, fam, addr, len]:                        *)
(*   k = "cidr"   "<addr>/<len>" of family fam, host bits possibly set     *)
(*   k = "bad"    a string ipaddress.ip_network rejects with ValueError    *)
(*   k = "empty"  the empty string                                         *)
(* A network (ipaddress.IPv4Network / IPv6Network) is a record             *)
(* [fam, addr, len] with addr the masked network address.                  *)
(* Address widths are scaled down from 32 and 128 bits to Bits4, Bits6.    *)
(***************************************************************************)
EXTENDS Integers, Sequences, FiniteSets, TLC

MaxLen == 3      \* longest input list
Bits4 == 1       \* width of a family-4 address in the model
Bits6 == 0       \* width of a family-6 address in the model

VARIABLES prefixes, cidr_list, unique_cidrs, duplicates, processed_cidrs,
          stats, networks, result_networks, idx, decisions, pc, round, prev

vars == <<prefixes, cidr_list, unique_cidrs, duplicates, processed_cidrs,
          stats, networks, result_networks, idx, decisions, pc, round, prev>>

----------------------------------------------------------------------------
(* Strings and networks *)

Bits(fam) == IF fam = 4 THEN Bits4 ELSE Bits6

Pow2(n) == 2 ^ n

CidrString(fam, addr, len) == [k |-> "cidr", fam |-> fam, addr |-> addr, len |-> len]

BadString == [k |-> "bad", fam |-> 0, addr |-> 0, len |-> 0]

EmptyString == [k |-> "empty", fam |-> 0, addr |-> 0, len |-> 0]

CidrStrings ==
    UNION { { CidrString(f, a, l) : a \in 0..(Pow2(Bits(f)) - 1), l \in 0..Bits(f) }
            : f \in {4, 6} }

Strings == CidrStrings \cup {BadString, EmptyString}

Network(fam, addr, len) == [fam |-> fam, addr |-> addr, len |-> len]

\* number of addresses of a network
NumAddresses(net) == Pow2(Bits(net.fam) - net.len)

broadcast_address(net) == net.addr + NumAddresses(net) - 1

\* ipaddress.ip_network(cidr, strict=False) raises ValueError
ParseFails(s) == s.k # "cidr"

\* ip_network that keeps the host bits of the address
ip_network_NoMask(s) == Network(s.fam, s.addr, s.len)

\* ipaddress.ip_network(cidr, strict=False): host bits are masked off
ip_network(s) ==
    Network(s.fam, s.addr - (s.addr % Pow2(Bits(s.fam) - s.len)), s.len)

\* str(net)
str(net) == CidrString(net.fam, net.addr, net.len)

\* address in network (_BaseNetwork.__contains__): False across versions
Contains(net, fam, a) ==
    /\ net.fam = fam
    /\ a - (a % NumAddresses(net)) = net.addr

\* net.overlaps(other)
overlaps(net, other) ==
    \/ Contains(other, net.fam, net.addr)
    \/ Contains(other, net.fam, broadcast_address(net))
    \/ Contains(net, other.fam, other.addr)
    \/ Contains(net, other.fam, broadcast_address(other))

\* subnet_of that compares the first addresses only
subnet_of_StartOnly(a, b) == b.addr <= a.addr

\* a.subnet_of(b), for networks of one version
subnet_of(a, b) ==
    /\ b.addr <= a.addr
    /\ broadcast_address(b) >= broadcast_address(a)

\* net.subnets(): the two halves
subnets(net) ==
    << Network(net.fam, net.addr, net.len + 1),
       Network(net.fam, net.addr + NumAddresses(net) \div 2, net.len + 1) >>

RECURSIVE ExcludeLoop(_, _, _)
ExcludeLoop(s1, s2, other) ==
    IF s1 = other THEN << s2 >>
    ELSE IF s2 = other THEN << s1 >>
    ELSE IF subnet_of(other, s1)
         THEN << s2 >> \o ExcludeLoop(subnets(s1)[1], subnets(s1)[2], other)
         ELSE << s1 >> \o ExcludeLoop(subnets(s2)[1], subnets(s2)[2], other)

\* net.address_exclude(other) raises ValueError
ExcludeFails(net, other) == ~ subnet_of(other, net)

\* list(net.address_exclude(other)) when it does not raise
address_exclude(net, other) ==
    IF other = net THEN << >>
    ELSE ExcludeLoop(subnets(net)[1], subnets(net)[2], other)

----------------------------------------------------------------------------
(* Sequence helpers *)

Range(seq) == { seq[i] : i \in 1..Len(seq) }

\* occurrences of x in seq (collections.Counter)
Count(seq, x) == Cardinality({ i \in 1..Len(seq) : seq[i] = x })

\* [x for x in seq if x]
NonEmpty(seq) == SelectSeq(seq, LAMBDA s : s.k # "empty")

\* the loop with unique_list.insert(0, x) in place of append
RECURSIVE FirstOccurrences_Prepend(_, _)
FirstOccurrences_Prepend(seq, seen) ==
    IF seq = << >> THEN << >>
    ELSE IF Head(seq) \in seen
         THEN FirstOccurrences_Prepend(Tail(seq), seen)
         ELSE FirstOccurrences_Prepend(Tail(seq), seen \cup {Head(seq)}) \o << Head(seq) >>

\* the loop "if x not in seen: seen.add(x); out.append(x)"
RECURSIVE FirstOccurrences(_, _)
FirstOccurrences(seq, seen) ==
    IF seq = << >> THEN << >>
    ELSE IF Head(seq) \in seen
         THEN FirstOccurrences(Tail(seq), seen)
         ELSE << Head(seq) >> \o FirstOccurrences(Tail(seq), seen \cup {Head(seq)})

\* the key compared as with reverse=True
AddressKeyLE_Descending(a, b) == a.addr >= b.addr

\* key=lambda x: x.network_address
AddressKeyLE(a, b) == a.addr <= b.addr

\* key=lambda x: (x.network_address, x.prefixlen)
AddressPrefixKeyLE(a, b) == a.addr < b.addr \/ (a.addr = b.addr /\ a.len <= b.len)

KeyLE(a, b, withPrefix) ==
    IF withPrefix THEN AddressPrefixKeyLE(a, b) ELSE AddressKeyLE(a, b)

\* a sort that leaves the list as it is
SortByKey_Unsorted(seq, withPrefix) == seq

\* insert x behind every element whose key is not greater (stable)
RECURSIVE InsertByKey(_, _, _)
InsertByKey(seq, x, withPrefix) ==
    IF seq = << >> THEN << x >>
    ELSE IF KeyLE(seq[Len(seq)], x, withPrefix)
         THEN Append(seq, x)
         ELSE Append(InsertByKey(SubSeq(seq, 1, Len(seq) - 1), x, withPrefix),
                     seq[Len(seq)])

\* list.sort(key=...): stable, ascending
RECURSIVE SortByKey(_, _)
SortByKey(seq, withPrefix) ==
    IF seq = << >> THEN << >>
    ELSE InsertByKey(SortByKey(SubSeq(seq, 1, Len(seq) - 1), withPrefix),
                     seq[Len(seq)], withPrefix)

\* comparing the network_address of an IPv4 and an IPv6 network raises TypeError
SortRaises(nets) == \E i, j \in 1..Len(nets) : nets[i].fam # nets[j].fam

----------------------------------------------------------------------------
(* Deduplication on the loaded strings *)

\* the comprehension with "count > 0"
CheckDuplicates_AtLeastOnce(list) ==
    [ s \in Range(list) |-> Count(list, s) ]

\* {cidr: count for cidr, count in Counter(cidr_list).items() if count > 1}
CheckDuplicates(list) ==
    [ s \in { x \in Range(list) : Count(list, x) > 1 } |-> Count(list, s) ]

\* sum(duplicates.values())
RECURSIVE SumValues(_, _)
SumValues(d, keys) ==
    IF keys = {} THEN 0
    ELSE LET x == CHOOSE y \in keys : TRUE
         IN  d[x] + SumValues(d, keys \ {x})

\* deduplication keyed on the parsed network instead of the string
RECURSIVE FirstOfEachBlock(_, _)
FirstOfEachBlock(seq, seen) ==
    IF seq = << >> THEN << >>
    ELSE LET x == Head(seq)
             key == IF ParseFails(x) THEN x ELSE str(ip_network(x))
         IN  IF key \in seen
             THEN FirstOfEachBlock(Tail(seq), seen)
             ELSE << x >> \o FirstOfEachBlock(Tail(seq), seen \cup {key})

RemoveDuplicates_Canonical(list, dups) == FirstOfEachBlock(list, {})

\* _remove_duplicates: a copy when nothing is duplicated, else first occurrences
RemoveDuplicates(list, dups) ==
    IF DOMAIN dups = {} THEN list ELSE FirstOccurrences(list, {})

----------------------------------------------------------------------------
(* Resolver helpers *)

\* the parse loop of split_intersecting_networks: ValueError entries are skipped
RECURSIVE ParseAll(_)
ParseAll(list) ==
    IF list = << >> THEN << >>
    ELSE IF ParseFails(Head(list))
         THEN ParseAll(Tail(list))
         ELSE << ip_network(Head(list)) >> \o ParseAll(Tail(list))

Decision(type, net, last_net) == [ type |-> type, net |-> net, last |-> last_net ]

\* the loop body with the superset branch appending instead of replacing
ScanResult_AppendOnReplace(result, net) ==
    LET last_net == result[Len(result)]
    IN  IF result = << >> THEN << net >>
        ELSE IF overlaps(net, last_net) /\ subnet_of(net, last_net) THEN result
        ELSE Append(result, net)

\* result_networks after the loop body has run for net
ScanResult(result, net) ==
    LET last_net == result[Len(result)]
    IN  IF result = << >> THEN << net >>
        ELSE IF overlaps(net, last_net)
        THEN IF subnet_of(net, last_net) THEN result
             ELSE IF subnet_of(last_net, net)
             THEN [ result EXCEPT ![Len(result)] = net ]
             ELSE IF ExcludeFails(net, last_net)
             THEN Append(result, net)
             ELSE result \o address_exclude(net, last_net)
        ELSE Append(result, net)

\* the overlap messages the loop body logs for net
ScanLog(result, net) ==
    LET last_net == result[Len(result)]
    IN  IF result = << >> THEN << >>
        ELSE IF overlaps(net, last_net)
        THEN IF subnet_of(net, last_net)
             THEN << Decision("inside", net, last_net) >>
             ELSE IF subnet_of(last_net, net)
             THEN << Decision("replaced", net, last_net) >>
             ELSE IF ExcludeFails(net, last_net)
             THEN << Decision("unsplit", net, last_net) >>
             ELSE IF address_exclude(net, last_net) # << >>
             THEN << Decision("partial", net, last_net) >>
             ELSE << >>
        ELSE << >>

\* the whole loop "for net in networks", started from result
RECURSIVE ScanAll(_, _)
ScanAll(nets, result) ==
    IF nets = << >> THEN result
    ELSE ScanAll(Tail(nets), ScanResult(result, Head(nets)))

\* "Удаляем дубликаты после разбивки": first occurrence of every str(net)
UniqueNetworks(nets) == FirstOccurrences(nets, {})

\* processed_cidrs computed at the end of split_intersecting_networks
SplitOutput(result) ==
    LET sorted == SortByKey(UniqueNetworks(result), TRUE)
    IN  [ i \in 1..Len(sorted) |-> str(sorted[i]) ]

\* processed_cidrs at the end of process() for a deduplicated list: the list
\* itself when nothing parses or when the sort raises (the fallback of process),
\* else the formatted result of the scan
ProcessOutput(unique) ==
    LET parsed == ParseAll(unique)
    IN  IF parsed = << >> THEN unique
        ELSE IF SortRaises(parsed) THEN unique
        ELSE SplitOutput(ScanAll(SortByKey(parsed, FALSE), << >>))

----------------------------------------------------------------------------
(* check_intersections: the pairwise strategy *)

\* the parse loop of check_intersections: (cidr, network) pairs
RECURSIVE ParsePairs(_)
ParsePairs(list) ==
    IF list = << >> THEN << >>
    ELSE IF ParseFails(Head(list))
         THEN ParsePairs(Tail(list))
         ELSE << [ cidr |-> Head(list), net |-> ip_network(Head(list)) ] >>
                  \o ParsePairs(Tail(list))

RECURSIVE InsertByPrefixlen(_, _)
InsertByPrefixlen(seq, x) ==
    IF seq = << >> THEN << x >>
    ELSE IF seq[Len(seq)].net.len <= x.net.len
         THEN Append(seq, x)
         ELSE Append(InsertByPrefixlen(SubSeq(seq, 1, Len(seq) - 1), x), seq[Len(seq)])

\* networks.sort(key=lambda x: x[1].prefixlen): stable, ascending
RECURSIVE SortByPrefixlen(_)
SortByPrefixlen(seq) ==
    IF seq = << >> THEN << >>
    ELSE InsertByPrefixlen(SortByPrefixlen(SubSeq(seq, 1, Len(seq) - 1)), seq[Len(seq)])

Intersection(type, p1, p2) == [ type |-> type, cidr1 |-> p1.cidr, cidr2 |-> p2.cidr ]

\* "for j, (cidr2, net2) in enumerate(processed)" from position j on, for the
\* pair p1: the processed list, is_intersected and the intersections found
RECURSIVE InnerLoop(_, _, _, _, _)
InnerLoop(p1, processed, j, is_intersected, found) ==
    IF j > Len(processed)
    THEN [ processed |-> processed, is_intersected |-> is_intersected, found |-> found ]
    ELSE LET p2 == processed[j]
         IN  IF overlaps(p1.net, p2.net)
             THEN IF subnet_of(p1.net, p2.net)
                  THEN InnerLoop(p1, processed, j + 1, TRUE,
                                 Append(found, Intersection("subnet", p1, p2)))
                  ELSE IF subnet_of(p2.net, p1.net)
                  THEN [ processed |-> [ processed EXCEPT ![j] = p1 ],
                         is_intersected |-> FALSE,
                         found |-> Append(found, Intersection("supernet", p1, p2)) ]
                  ELSE InnerLoop(p1, processed, j + 1, TRUE,
                                 Append(found, Intersection("partial", p1, p2)))
             ELSE InnerLoop(p1, processed, j + 1, is_intersected, found)

\* "for i, (cidr1, net1) in enumerate(networks)": processed and intersections
RECURSIVE OuterLoop(_, _, _)
OuterLoop(pairs, processed, found) ==
    IF pairs = << >> THEN [ processed |-> processed, found |-> found ]
    ELSE LET p1 == Head(pairs)
             r == InnerLoop(p1, processed, 1, FALSE, found)
         IN  OuterLoop(Tail(pairs),
                       IF ~ r.is_intersected /\ p1 \notin Range(r.processed)
                       THEN Append(r.processed, p1)
                       ELSE r.processed,
                       r.found)

\* processed and intersections of check_intersections for a deduplicated list
CheckResult(unique) == OuterLoop(SortByPrefixlen(ParsePairs(unique)), << >>, << >>)

InitStats ==
    [ total_original |-> 0, total_processed |-> 0, duplicates_found |-> 0,
      duplicate_count |-> 0, intersections_found |-> 0 ]

----------------------------------------------------------------------------
(* State machine of process() *)

Inputs == UNION { [1..n -> Strings] : n \in 0..MaxLen }

Init ==
    /\ prefixes \in Inputs
    /\ cidr_list = << >>
    /\ unique_cidrs = << >>
    /\ duplicates = << >>
    /\ processed_cidrs = << >>
    /\ stats = InitStats
    /\ networks = << >>
    /\ result_networks = << >>
    /\ idx = 0
    /\ decisions = << >>
    /\ pc = "init"
    /\ round = 1
    /\ prev = << >>

\* load_json succeeds: extract, filter empty values, count and remove duplicates
LoadJson ==
    /\ pc = "init"
    /\ LET list == NonEmpty(prefixes)
           dups == CheckDuplicates(list)
       IN  /\ cidr_list' = list
           /\ duplicates' = dups
           /\ unique_cidrs' = RemoveDuplicates(list, dups)
           /\ stats' =
                IF DOMAIN dups # {}
                THEN [ stats EXCEPT
                         !.total_original = Len(list),
                         !.duplicates_found = Cardinality(DOMAIN dups),
                         !.duplicate_count =
                             SumValues(dups, DOMAIN dups) - Cardinality(DOMAIN dups) ]
                ELSE [ stats EXCEPT !.total_original = Len(list) ]
    /\ pc' = "loaded"
    /\ UNCHANGED <<prefixes, processed_cidrs, networks, result_networks, idx,
                   decisions, round, prev>>

\* load_json fails (unreadable file, invalid JSON): process() returns False
LoadJsonFail ==
    /\ pc = "init"
    /\ pc' = "aborted"
    /\ UNCHANGED <<prefixes, cidr_list, unique_cidrs, duplicates, processed_cidrs,
                   stats, networks, result_networks, idx, decisions, round, prev>>

\* split_intersecting_networks up to the scan: parse, empty check, sort
SplitBegin ==
    /\ pc = "loaded"
    /\ LET parsed == ParseAll(unique_cidrs)
       IN  IF parsed = << >>
           THEN /\ processed_cidrs' = unique_cidrs
                /\ pc' = "split_ok"
                /\ UNCHANGED <<networks, result_networks, idx>>
           ELSE IF SortRaises(parsed)
           THEN /\ pc' = "split_failed"
                /\ networks' = parsed
                /\ UNCHANGED <<processed_cidrs, result_networks, idx>>
           ELSE /\ networks' = SortByKey(parsed, FALSE)
                /\ result_networks' = << >>
                /\ idx' = 1
                /\ pc' = "scan"
                /\ UNCHANGED processed_cidrs
    /\ UNCHANGED <<prefixes, cidr_list, unique_cidrs, duplicates, stats,
                   decisions, round, prev>>

\* one iteration of "for net in networks"
ScanStep ==
    /\ pc = "scan"
    /\ idx <= Len(networks)
    /\ result_networks' = ScanResult(result_networks, networks[idx])
    /\ decisions' = decisions \o ScanLog(result_networks, networks[idx])
    /\ idx' = idx + 1
    /\ UNCHANGED <<prefixes, cidr_list, unique_cidrs, duplicates, processed_cidrs,
                   stats, networks, pc, round, prev>>

\* after the scan: drop repeats, sort, format, count; returns True
SplitEnd ==
    /\ pc = "scan"
    /\ idx > Len(networks)
    /\ processed_cidrs' = SplitOutput(result_networks)
    /\ stats' = [ stats EXCEPT !.total_processed = Len(SplitOutput(result_networks)) ]
    /\ pc' = "split_ok"
    /\ UNCHANGED <<prefixes, cidr_list, unique_cidrs, duplicates, networks,
                   result_networks, idx, decisions, round, prev>>

\* split_intersecting_networks returned True: save and finish
ProcessSave ==
    /\ pc = "split_ok"
    /\ pc' = "done"
    /\ UNCHANGED <<prefixes, cidr_list, unique_cidrs, duplicates, processed_cidrs,
                   stats, networks, result_networks, idx, decisions, round, prev>>

\* split_intersecting_networks returned False: keep the deduplicated list, save, finish
ProcessFallback ==
    /\ pc = "split_failed"
    /\ processed_cidrs' = unique_cidrs
    /\ stats' = [ stats EXCEPT !.total_processed = Len(unique_cidrs) ]
    /\ pc' = "done"
    /\ UNCHANGED <<prefixes, cidr_list, unique_cidrs, duplicates, networks,
                   result_networks, idx, decisions, round, prev>>

\* a second processor is constructed and fed the list the first one wrote
Rerun ==
    /\ pc = "done"
    /\ round = 1
    /\ prefixes' = processed_cidrs
    /\ prev' = processed_cidrs
    /\ round' = 2
    /\ cidr_list' = << >>
    /\ unique_cidrs' = << >>
    /\ duplicates' = << >>
    /\ processed_cidrs' = << >>
    /\ stats' = InitStats
    /\ networks' = << >>
    /\ result_networks' = << >>
    /\ idx' = 0
    /\ decisions' = << >>
    /\ pc' = "init"

\* check_intersections called on the processor once split_intersecting_networks
\* has returned; prev keeps the list that call left in processed_cidrs
CheckIntersections ==
    /\ pc \in {"split_ok", "split_failed"}
    /\ LET r == CheckResult(unique_cidrs)
       IN  /\ processed_cidrs' = [ i \in 1..Len(r.processed) |-> r.processed[i].cidr ]
           /\ stats' = [ stats EXCEPT !.intersections_found = Len(r.found),
                                      !.total_processed = Len(r.processed) ]
    /\ prev' = processed_cidrs
    /\ pc' = "checked"
    /\ UNCHANGED <<prefixes, cidr_list, unique_cidrs, duplicates, networks,
                   result_networks, idx, decisions, round>>

Next ==
    \/ LoadJson
    \/ LoadJsonFail
    \/ SplitBegin
    \/ ScanStep
    \/ SplitEnd
    \/ ProcessSave
    \/ ProcessFallback

Spec == Init /\ [][Next]_vars

NextRerun == Next \/ Rerun

SpecRerun == Init /\ [][NextRerun]_vars

NextCheck == Next \/ CheckIntersections

SpecCheck == Init /\ [][NextCheck]_vars

TypeOK ==
    /\ pc \in {"init", "aborted", "loaded", "scan", "split_ok", "split_failed", "done",
              "checked"}
    /\ round \in {1, 2}
    /\ idx \in 0..(MaxLen + 1)

----------------------------------------------------------------------------
(* Vocabulary of the properties *)

\* the addresses of a network, tagged with its family
CoveredBy(net) == { << net.fam, a >> : a \in net.addr..broadcast_address(net) }

WellFormed(list) == { i \in 1..Len(list) : ~ ParseFails(list[i]) }

\* the addresses covered by the well-formed strings of a list
Covered(list) == UNION { CoveredBy(ip_network(list[i])) : i \in WellFormed(list) }

\* the networks the well-formed strings of a list denote
Blocks(list) == { ip_network(list[i]) : i \in WellFormed(list) }

MixedFamilies(list) == \E m, n \in Blocks(list) : m.fam # n.fam

Loaded == pc \notin {"init", "aborted"}

\* the strings of list that parse as a network of family fam
OfFamily(list, fam) == SelectSeq(list, LAMBDA x : ~ ParseFails(x) /\ x.fam = fam)

WithoutMalformed(list) == SelectSeq(list, LAMBDA x : ~ ParseFails(x))

----------------------------------------------------------------------------
(* C1: after process() has loaded the list and run the resolver, every two *)
(* distinct entries of processed_cidrs cover disjoint address ranges.      *)
C1_OutputDisjoint ==
    pc = "done" =>
        \A i, j \in WellFormed(processed_cidrs) :
            processed_cidrs[i] # processed_cidrs[j] =>
                CoveredBy(ip_network(processed_cidrs[i]))
                    \cap CoveredBy(ip_network(processed_cidrs[j])) = {}

(* C2: the addresses covered by the resolver's output are exactly the      *)
(* addresses covered by the well-formed entries of the deduplicated input, *)
(* both when split_intersecting_networks has returned True and at the end  *)
(* of process().                                                           *)
C2_CoveragePreserved ==
    pc \in {"split_ok", "done"} => Covered(processed_cidrs) = Covered(unique_cidrs)

\* C2 witness: the resolver has dropped or replaced a record of a list that
\* covers addresses, so the output is not the input list
C2_Witness ==
    /\ pc = "split_ok"
    /\ decisions # << >>
    /\ Len(processed_cidrs) < Len(unique_cidrs)
    /\ Covered(unique_cidrs) # {}

(* C3: with both families in the deduplicated input, the output restricted *)
(* to one family is the resolver's output for that family's records alone. *)
C3_FamiliesResolvedIndependently ==
    (pc = "done" /\ MixedFamilies(unique_cidrs)) =>
        \A f \in {4, 6} :
            OfFamily(processed_cidrs, f) = ProcessOutput(OfFamily(unique_cidrs, f))

(* C4: no malformed string appears in processed_cidrs, and the output is   *)
(* the resolver's output for the input with the malformed entries removed  *)
(* (empty when every entry is malformed).                                  *)
C4_MalformedSkipped ==
    pc = "done" =>
        /\ \A i \in 1..Len(processed_cidrs) : ~ ParseFails(processed_cidrs[i])
        /\ processed_cidrs = ProcessOutput(WithoutMalformed(unique_cidrs))

(* C5: unique_cidrs holds each distinct entry of cidr_list exactly once,   *)
(* in the order of first occurrence; an empty list gives an empty list.    *)
FirstIndex(list, x) == CHOOSE i \in 1..Len(list) :
                          list[i] = x /\ \A j \in 1..(i - 1) : list[j] # x

C5_StableDedup ==
    Loaded =>
        /\ Range(unique_cidrs) = Range(cidr_list)
        /\ \A i, j \in 1..Len(unique_cidrs) :
               i < j => /\ unique_cidrs[i] # unique_cidrs[j]
                        /\ FirstIndex(cidr_list, unique_cidrs[i])
                             < FirstIndex(cidr_list, unique_cidrs[j])
        /\ cidr_list = << >> => unique_cidrs = << >>

\* C5 witness: a repeat was removed from between two kept entries
C5_Witness ==
    /\ Loaded
    /\ Len(unique_cidrs) = 2
    /\ Len(cidr_list) = 3
    /\ cidr_list[1] = cidr_list[3]

C7_DuplicateCounts ==
    Loaded =>
        /\ DOMAIN duplicates = { x \in Range(cidr_list) : Count(cidr_list, x) > 1 }
        /\ \A x \in DOMAIN duplicates : duplicates[x] = Count(cidr_list, x)
        /\ stats.duplicates_found = Cardinality(DOMAIN duplicates)
        /\ stats.duplicate_count = Len(cidr_list) - Len(unique_cidrs)
        /\ stats.total_original = Len(cidr_list)

\* C7 witness: one string three times
C7_Witness ==
    /\ Loaded
    /\ stats.duplicates_found = 1
    /\ stats.duplicate_count = 2

(* C8: for an input of one family, a record that is a proper subset of     *)
(* another input record never appears in the output, whatever the order of *)
(* the two; the output is exactly the input records contained in no other  *)
(* input record.                                                           *)
ProperSubset(a, b) == CoveredBy(a) \subseteq CoveredBy(b) /\ CoveredBy(a) # CoveredBy(b)

Maximal(S) == { n \in S : ~ \E m \in S : ProperSubset(n, m) }

OneFamily(list) == Blocks(list) # {} /\ ~ MixedFamilies(list)

C8_SubsetAbsorption ==
    (pc \in {"split_ok", "done"} /\ OneFamily(unique_cidrs)) =>
        /\ Range(processed_cidrs) = { str(n) : n \in Maximal(Blocks(unique_cidrs)) }
        /\ Len(processed_cidrs) = Cardinality(Maximal(Blocks(unique_cidrs)))

\* C8 witness: one run in which a subset came after its superset and another
\* came before it
C8_Witness ==
    /\ pc = "done"
    /\ OneFamily(unique_cidrs)
    /\ \E i, j \in 1..Len(decisions) :
           decisions[i].type = "replaced" /\ decisions[j].type = "inside"

(* C9: the resolver returns a list of canonical, pairwise disjoint         *)
(* prefixes unchanged as a set, and a second run of process() on the       *)
(* output of a first run gives that output again.                          *)
CanonicalDisjoint(list) ==
    /\ \A i \in 1..Len(list) : ~ ParseFails(list[i]) /\ str(ip_network(list[i])) = list[i]
    /\ \A i, j \in 1..Len(list) :
           i # j => CoveredBy(ip_network(list[i])) \cap CoveredBy(ip_network(list[j])) = {}

C9_Idempotent ==
    pc = "done" =>
        /\ CanonicalDisjoint(cidr_list) => Range(processed_cidrs) = Range(cidr_list)
        /\ round = 2 => processed_cidrs = prev

\* C9 witness: the second run has scanned a list of two or more networks
C9_Witness ==
    /\ pc = "done"
    /\ round = 2
    /\ Len(networks) >= 2
    /\ idx > Len(networks)
    /\ processed_cidrs = prev

(* C10: at the end of process() stats['intersections_found'] equals the    *)
(* number of overlap decisions the resolver made.                          *)
C10_OverlapsCounted ==
    pc = "done" => stats.intersections_found = Len(decisions)

(* C11: during the scan of a one-family list sorted by base address, after *)
(* every iteration result_networks is pairwise disjoint, and the incoming  *)
(* record overlaps no entry of result_networks other than the last one.    *)
Disjoint(a, b) == CoveredBy(a) \cap CoveredBy(b) = {}

C12_NoPartialOverlap ==
    /\ \A i, j \in 1..Len(networks) :
           (networks[i].fam = networks[j].fam /\ overlaps(networks[i], networks[j])) =>
               subnet_of(networks[i], networks[j]) \/ subnet_of(networks[j], networks[i])
    /\ \A i \in 1..Len(decisions) : decisions[i].type \in {"inside", "replaced"}
    /\ pc \in {"scan", "split_ok", "done"} =>
           /\ Range(result_networks) \subseteq Range(networks)
           /\ OneFamily(unique_cidrs) /\ pc # "scan" =>
                  \A i \in 1..Len(processed_cidrs) :
                      \E j \in WellFormed(unique_cidrs) :
                          processed_cidrs[i] = str(ip_network(unique_cidrs[j]))

\* C12 witness: the scan met an overlapping pair and finished
C12_Witness ==
    /\ pc = "done"
    /\ decisions # << >>
    /\ Len(networks) >= 2
    /\ processed_cidrs # << >>

(* C13: whenever process() gets past loading, at its end                   *)
(* stats['total_processed'] equals len(processed_cidrs).                   *)
C13_TotalProcessedMatches ==
    pc = "done" => stats.total_processed = Len(processed_cidrs)

(* C14: check_intersections and split_intersecting_networks leave in       *)
(* processed_cidrs the same set of blocks, compared as canonical (family,  *)
(* base address, prefix length) records.                                   *)
C14_StrategiesAgree ==
    pc = "checked" => Blocks(processed_cidrs) = Blocks(prev)

\* the agreement for lists whose well-formed entries are of one family
C14_AgreeOneFamily ==
    (pc = "checked" /\ ~ MixedFamilies(unique_cidrs)) =>
        Blocks(processed_cidrs) = Blocks(prev)
====
